---- MODULE Spec2Model ----
(***************************************************************************)
(* Bulk ingestion of daily-bar text files into the SQLite store, as done   *)
(* by parse_existing_data.py (naive), parse_existing_data_fast.py (fast),  *)
(* parse_existing_data_robust.py (robust) and                              *)
(* parse_existing_data_single.py (single).                                 *)
(*                                                                         *)
(* Text is a sequence of one-character strings.  The store is modelled as  *)
(* the committed tables (durable) and the connection's view of them        *)
(* (work, with the open-transaction flag), following the transaction       *)
(* control of Python's sqlite3 module with its default isolation level:    *)
(* INSERT/REPLACE statements open a transaction implicitly, BEGIN inside   *)
(* an open transaction fails, commit() without a transaction is a no-op.   *)
(***************************************************************************)
EXTENDS Integers, Sequences, FiniteSets, TLC

\* ------------------------------------------------------------------ bounds
MaxLines == 2       \* data lines after the header in a generated file
MaxRoots == 2       \* exchange roots (in EXCHANGES order) that may exist
MaxFaults == 1      \* injected store / file-system failures per behaviour
MaxExtra == 1       \* files beyond batch_size in the batch-commit trees
MaxRuns == 2        \* runs of the script over the same files and store
MaxRows == 5        \* rows of a series of closes given to the cycle finder

\* -------------------------------------------------------- program constants
batch_size == 25
NumFields == 10

\* ------------------------------------------------------------------- text
Whitespace == {" ", "\n", "\t", "\r"}
Digits == {"0", "1", "2", "3", "4", "5", "6", "7", "8", "9"}

DigitVal(c) ==
  CASE c = "0" -> 0 [] c = "1" -> 1 [] c = "2" -> 2 [] c = "3" -> 3
    [] c = "4" -> 4 [] c = "5" -> 5 [] c = "6" -> 6 [] c = "7" -> 7
    [] c = "8" -> 8 [] c = "9" -> 9

\* s[a:b] of Python with 0 <= a <= b (the end is clipped to the length).
Slice(s, a, b) ==
  LET hi == IF b < Len(s) THEN b ELSE Len(s)
  IN  IF a >= hi THEN << >> ELSE SubSeq(s, a + 1, hi)

StartsWith(s, p) == Len(p) <= Len(s) /\ SubSeq(s, 1, Len(p)) = p

EndsWith(s, p) ==
  Len(p) <= Len(s) /\ SubSeq(s, Len(s) - Len(p) + 1, Len(s)) = p

RECURSIVE LStrip(_)
LStrip(s) ==
  IF s # << >> /\ Head(s) \in Whitespace THEN LStrip(Tail(s)) ELSE s

RECURSIVE RStrip(_)
RStrip(s) ==
  IF s # << >> /\ s[Len(s)] \in Whitespace
  THEN RStrip(SubSeq(s, 1, Len(s) - 1))
  ELSE s

\* str.strip()
Strip(s) == RStrip(LStrip(s))

\* str.split(sep) for a one-character separator: always at least one field.
RECURSIVE SplitFrom(_, _, _)
SplitFrom(s, sep, field) ==
  IF s = << >> THEN << field >>
  ELSE IF Head(s) = sep THEN << field >> \o SplitFrom(Tail(s), sep, << >>)
  ELSE SplitFrom(Tail(s), sep, Append(field, Head(s)))

Split(s, sep) == SplitFrom(s, sep, << >>)

\* str.replace(old, ''): every non-overlapping occurrence, left to right.
RECURSIVE Remove(_, _)
Remove(s, old) ==
  IF s = << >> THEN << >>
  ELSE IF StartsWith(s, old) THEN Remove(Slice(s, Len(old), Len(s)), old)
  ELSE << Head(s) >> \o Remove(Tail(s), old)

RECURSIVE Join(_, _)
Join(fields, sep) ==
  IF fields = << >> THEN << >>
  ELSE IF Len(fields) = 1 THEN fields[1]
  ELSE fields[1] \o << sep >> \o Join(Tail(fields), sep)

Lower(c) ==
  CASE c = "I" -> "i" [] c = "N" -> "n" [] c = "F" -> "f" [] c = "A" -> "a"
    [] c = "T" -> "t" [] c = "Y" -> "y" [] OTHER -> c

LowerText(s) == [i \in 1..Len(s) |-> Lower(s[i])]

AllDigits(s) == \A i \in 1..Len(s) : s[i] \in Digits

RECURSIVE NatOf(_)
NatOf(s) ==
  IF s = << >> THEN 0 ELSE NatOf(SubSeq(s, 1, Len(s) - 1)) * 10 + DigitVal(s[Len(s)])

RECURSIVE DropTrailingZeros(_)
DropTrailingZeros(s) ==
  IF s # << >> /\ s[Len(s)] = "0"
  THEN DropTrailingZeros(SubSeq(s, 1, Len(s) - 1))
  ELSE s

\* float(text) on the texts the model feeds it: surrounding whitespace, an
\* optional sign, then nan / inf / infinity in any case, or decimal digits with
\* at most one point.  ok = FALSE stands for ValueError.
FloatOf(text) ==
  LET t == Strip(text)
      signed == t # << >> /\ Head(t) \in {"+", "-"}
      neg == t # << >> /\ Head(t) = "-"
      body == IF signed THEN Tail(t) ELSE t
      low == LowerText(body)
      parts == Split(body, ".")
      whole == parts[1]
      frac == IF Len(parts) = 2 THEN parts[2] ELSE << >>
  IN  IF low = << "n", "a", "n" >> THEN [ok |-> TRUE, cls |-> "nan"]
      ELSE IF low \in { << "i", "n", "f" >>,
                        << "i", "n", "f", "i", "n", "i", "t", "y" >> }
        THEN [ok |-> TRUE, cls |-> "inf", neg |-> neg]
      ELSE IF /\ Len(parts) <= 2
              /\ AllDigits(whole) /\ AllDigits(frac)
              /\ Len(whole) + Len(frac) > 0
        THEN [ok |-> TRUE, cls |-> "finite", neg |-> neg,
              whole |-> NatOf(whole), frac |-> DropTrailingZeros(frac)]
      ELSE [ok |-> FALSE]

\* --------------------------------------------------------- Record Parser
HeaderTicker == << "<", "T", "I", "C", "K", "E", "R", ">" >>
DotUS == << ".", "U", "S" >>
Dotus == << ".", "u", "s" >>
DotTxt == << ".", "t", "x", "t" >>

\* ticker.replace('.US', '').replace('.us', '')
StripSuffix(ticker) == Remove(Remove(ticker, DotUS), Dotus)

\* f"{date[:4]}-{date[4:6]}-{date[6:8]}"
FormatDate(date) ==
  Slice(date, 0, 4) \o << "-" >> \o Slice(date, 4, 6) \o << "-" >> \o Slice(date, 6, 8)

\* parse_csv_line: "none" is the returned None, "raise" the ValueError of the
\* 10-name unpacking, which is outside the function's try block.
parse_csv_line(line) ==
  LET parts == Split(Strip(line), ",")
  IN  IF Len(parts) < NumFields THEN [kind |-> "none"]
      ELSE IF Len(parts) > NumFields THEN [kind |-> "raise"]
      ELSE LET ticker == parts[1]
               date == parts[3]
               open == FloatOf(parts[5])
               high == FloatOf(parts[6])
               low == FloatOf(parts[7])
               close == FloatOf(parts[8])
               volume == FloatOf(parts[9])
           IN  IF ticker = HeaderTicker \/ ticker = << >> \/ date = << >>
                 THEN [kind |-> "none"]
               ELSE IF ~(open.ok /\ high.ok /\ low.ok /\ close.ok /\ volume.ok)
                 THEN [kind |-> "none"]
               ELSE [kind |-> "rec",
                     row |-> [symbol |-> StripSuffix(ticker),
                              date |-> FormatDate(date),
                              open |-> open, high |-> high, low |-> low,
                              close |-> close, volume |-> volume]]

\* ------------------------------------------------------------ the store
\* Primary keys of the persisted schema: (symbol, date) for historical_prices,
\* symbol for symbols and data_freshness.
PriceKey(r) == << r.symbol, r.date >>
SymbolKey(r) == r.symbol

\* Changed: a plain INSERT into a table without the (symbol, date) conflict rule.
InsertPlainPrice(table, row) == table \cup {row}

\* INSERT OR REPLACE INTO historical_prices ... VALUES (...)
InsertOrReplacePrice(table, row) ==
  {r \in table : PriceKey(r) # PriceKey(row)} \cup {row}

\* INSERT OR IGNORE INTO symbols (symbol, name, exchange) VALUES (...)
InsertOrIgnoreSymbol(table, row) ==
  IF \E r \in table : SymbolKey(r) = SymbolKey(row) THEN table ELSE table \cup {row}

\* Changed: the summarizer's statement replaces the table, not one row.
ReplaceAllFreshness(table, symbol, now) ==
  {[symbol |-> symbol, last_updated |-> now, status |-> "active", error_count |-> 0]}

\* INSERT OR REPLACE INTO data_freshness ... VALUES (?, datetime('now'), 'active', 0)
InsertOrReplaceFreshness(table, symbol, now) ==
  {r \in table : SymbolKey(r) # symbol}
    \cup {[symbol |-> symbol, last_updated |-> now, status |-> "active", error_count |-> 0]}

EmptyDb == [prices |-> {}, symbols |-> {}, freshness |-> {}]

\* The store file as a process finds it: no connection, nothing uncommitted.
ClosedStore(db) ==
  [durable |-> db, work |-> db, open |-> FALSE, inTxn |-> FALSE,
   implicitTx |-> TRUE, journal |-> << >>]

\* Changed: sqlite3.connect(DB_PATH, isolation_level=None), the autocommit mode.
ConnectAutocommit(st) == [st EXCEPT !.open = TRUE, !.implicitTx = FALSE]

\* sqlite3.connect(DB_PATH): the default isolation level, under which the module
\* opens a transaction before INSERT/REPLACE statements.
Connect(st) == [st EXCEPT !.open = TRUE, !.implicitTx = TRUE]

\* A successful INSERT statement leaving the table contents `db`; `entry`
\* records the statement among the uncommitted ones.
ExecWrite(st, db, entry) ==
  IF st.inTxn \/ st.implicitTx
    THEN [st EXCEPT !.work = db, !.inTxn = TRUE, !.journal = Append(@, entry)]
    ELSE [st EXCEPT !.work = db, !.durable = db]

\* Changed: a statement that raises takes the open transaction with it.
FailedWriteAborts(st) ==
  [st EXCEPT !.work = st.durable, !.inTxn = FALSE, !.journal = << >>]

\* An INSERT statement that raises sqlite3.Error while executing: no row
\* changes, but the implicit transaction has been opened.
FailedWrite(st) ==
  IF st.implicitTx THEN [st EXCEPT !.inTxn = TRUE] ELSE st

\* cursor.execute("BEGIN TRANSACTION"): an error inside an open transaction.
BeginOk(st) == ~st.inTxn
Begin(st) == [st EXCEPT !.inTxn = TRUE]

\* A commit that succeeds.
Commit(st) ==
  [st EXCEPT !.durable = st.work, !.inTxn = FALSE, !.journal = << >>]

\* A rollback that succeeds.
Rollback(st) ==
  [st EXCEPT !.work = st.durable, !.inTxn = FALSE, !.journal = << >>]

\* db_conn.commit(): nothing to do, and nothing to fail, outside a transaction.
ConnCommit(st, ok) == IF st.inTxn /\ ok THEN Commit(st) ELSE st
ConnCommitFailed(st, ok) == st.inTxn /\ ~ok

\* try: db_conn.rollback() / except: pass
TryRollback(st, ok) == IF st.inTxn /\ ok THEN Rollback(st) ELSE st
TryRollbackFailed(st, ok) == st.inTxn /\ ~ok

\* ----------------------------------------------------------- the inputs
Variants == {"naive", "fast", "robust", "single"}

\* EXCHANGES, in the order the dictionary is iterated.
EXCHANGES ==
  << [dir |-> "nasdaq stocks", name |-> "NASDAQ"],
     [dir |-> "nyse stocks", name |-> "NYSE"],
     [dir |-> "nysemkt stocks", name |-> "NYSEMKT"],
     [dir |-> "nasdaq etfs", name |-> "NASDAQ"],
     [dir |-> "nyse etfs", name |-> "NYSE"],
     [dir |-> "nysemkt etfs", name |-> "NYSEMKT"] >>

NoDir == [exists |-> FALSE]
Root(listing) == [exists |-> TRUE, items |-> listing]

File(name, lines) == [isdir |-> FALSE, name |-> name, lines |-> lines]
Dir(name, listing) == [isdir |-> TRUE, name |-> name, items |-> listing]

\* A line of a generated file is named by a descriptor; LineText gives its text.
Nl == << "\n" >>
TickerText(t) == IF t = "A" THEN << "A", ".", "U", "S" >> ELSE << "B", ".", "u", "s" >>
DateText(d) ==
  << "2", "0", "2", "3", "0", "1", "0" >> \o << CHOOSE c \in Digits : DigitVal(c) = d >>
PriceText(n) ==
  IF n = 2 THEN << "2", ".", "5" >> ELSE << CHOOSE c \in Digits : DigitVal(c) = n >>

\* TICKER,PER,DATE,TIME,OPEN,HIGH,LOW,CLOSE,VOL,OPENINT
Fields(t, d, n) ==
  << TickerText(t), << "D" >>, DateText(d), << "0" >>, PriceText(n), PriceText(n),
     PriceText(n), PriceText(n), << "9" >>, << "0" >> >>

DataLine(t, d, n) == [kind |-> "data", ticker |-> t, date |-> d, price |-> n]
HeaderLine == [kind |-> "header"]
LongLine == [kind |-> "long"]
ShortLine == [kind |-> "short"]
BadNumberLine == [kind |-> "badnumber"]

LineText(l) ==
  CASE l.kind = "data" -> Join(Fields(l.ticker, l.date, l.price), ",") \o Nl
    [] l.kind = "header" ->
         Join(<< HeaderTicker >> \o [i \in 1..9 |-> << "<", "X", ">" >>], ",") \o Nl
    [] l.kind = "long" -> Join(Fields("A", 4, 1) \o << << "0" >> >>, ",") \o Nl
    [] l.kind = "short" -> Join(SubSeq(Fields("A", 4, 1), 1, 8), ",") \o Nl
    [] l.kind = "badnumber" ->
         Join([Fields("A", 4, 1) EXCEPT ![5] = << "x" >>], ",") \o Nl
    [] l.kind = "fields" -> Join(l.fields, ",") \o Nl

NameA == << "a", ".", "u", "s" >> \o DotTxt
NameB == << "b", ".", "u", "s" >> \o DotTxt
NameSub == << "s", "u", "b" >>
NameOther == << "n", "o", "t", "e", "s", ".", "c", "s", "v" >>

RECURSIVE SeqsUpTo(_, _)
SeqsUpTo(S, n) ==
  IF n = 0 THEN {<< >>}
  ELSE LET shorter == SeqsUpTo(S, n - 1)
       IN  shorter \cup {Append(q, x) : q \in {t \in shorter : Len(t) = n - 1}, x \in S}

\* Family 1: one exchange root holding one file, with every sequence of at
\* most MaxLines lines of the pool after the header.
LinePool ==
  { DataLine("A", 3, 1), DataLine("A", 3, 2),
    DataLine("A", 4, 1), LongLine, ShortLine, BadNumberLine }

ContentTrees ==
  { << File(NameA, << HeaderLine >> \o ls) >> : ls \in SeqsUpTo(LinePool, MaxLines) }

\* Family 2: up to MaxRoots exchange roots, each listing distinct entries among
\* a data file and a subdirectory holding an entry that is no data file and a
\* data file; the files under root i carry price i.
FileA(i) ==
  File(NameA, << HeaderLine, DataLine("A", 3, i), DataLine("A", 4, i) >>)
Other == File(NameOther, << HeaderLine >>)
SubB(i) ==
  Dir(NameSub, << Other, File(NameB, << HeaderLine, DataLine("B", 3, i) >>) >>)
Entries(i) == { FileA(i), SubB(i) }

ShapeTrees(i) ==
  { q \in SeqsUpTo(Entries(i), Cardinality(Entries(i))) :
      \A a, b \in 1..Len(q) : q[a] = q[b] => a = b }

\* Family 3: one exchange root with `top` files followed by a subdirectory of
\* `sub` files, every file with one data line.
RECURSIVE NameOfNumber(_)
NameOfNumber(n) ==
  IF n < 10 THEN << CHOOSE c \in Digits : DigitVal(c) = n >>
  ELSE NameOfNumber(n \div 10) \o NameOfNumber(n % 10)

NumberedFile(n) ==
  File(<< "f" >> \o NameOfNumber(n) \o DotTxt,
       << HeaderLine, DataLine("A", 3, 1) >>)

BatchTree(top, sub) ==
  [i \in 1..top |-> NumberedFile(i)]
    \o << Dir(NameSub, [i \in 1..sub |-> NumberedFile(top + i)]) >>

BatchTrees ==
  { BatchTree(top, sub) : top \in {0, batch_size - 1, batch_size},
                          sub \in 0..(MaxExtra + 1) }

RootsOf(trees) == [i \in 1..Len(EXCHANGES) |-> IF i <= Len(trees) THEN trees[i] ELSE NoDir]

RootChoices(i) == {NoDir} \cup {Root(t) : t \in ShapeTrees(i)}

ContentFileSystems ==
  { [dataDir |-> TRUE, dbFile |-> TRUE, roots |-> RootsOf(<< Root(t) >>)] :
      t \in ContentTrees }

ShapeFileSystems ==
  { [dataDir |-> TRUE, dbFile |-> TRUE, roots |-> RootsOf(r)] :
      r \in { q \in [1..MaxRoots -> UNION {RootChoices(i) : i \in 1..MaxRoots}] :
                \A i \in 1..MaxRoots : q[i] \in RootChoices(i) } }

\* The data root or the store file may be missing.
MissingFileSystems ==
  { [dataDir |-> d, dbFile |-> b, roots |-> RootsOf(<< Root(<< FileA(1) >>) >>)] :
      d \in BOOLEAN, b \in BOOLEAN }

BatchFileSystems ==
  { [dataDir |-> TRUE, dbFile |-> TRUE, roots |-> RootsOf(<< Root(t) >>)] :
      t \in BatchTrees }

\* Family 4: one exchange root holding one file of a header and one line, the
\* line built from its fields: every ticker, date and field count with plain
\* numbers, and every number text at the open and volume positions of an
\* otherwise plain line.
FieldsLine(fields) == [kind |-> "fields", fields |-> fields]

Tickers ==
  { << "A" >>, << "A", ".", "U", "S" >>, << "a", ".", "u", "s" >>,
    << "A", ".", "U", "s" >>, << "A", ".", "U", "S", "B" >>, << >>, HeaderTicker }

Dates ==
  { << "2", "0", "2", "3", "0", "1", "0", "3" >>,
    << "2", "0", "2", "3", "0", "1", "3" >>,
    << "2", "0", "2", "3", "0", "1", "0", "3", "4" >>,
    << "2", "0", "2", "3", "x", "1", "0", "3" >>,
    << >> }

Numbers ==
  { << "2", ".", "5" >>, << " ", "7" >>, << "-", "3" >>, << "x" >>, << >>,
    << "n", "a", "n" >>, << "i", "n", "f" >>, << "-", "I", "n", "f" >> }

PlainFields(ticker, date) ==
  << ticker, << "D" >>, date, << "0" >>, << "1" >>, << "1" >>, << "1" >>,
     << "1" >>, << "9" >>, << "0" >> >>

FieldCounts == {NumFields - 2, NumFields, NumFields + 1}

Resize(fields, n) ==
  [i \in 1..n |-> IF i <= Len(fields) THEN fields[i] ELSE << "0" >>]

ParseLines ==
  { FieldsLine(Resize(PlainFields(t, d), n)) :
      t \in Tickers, d \in Dates, n \in FieldCounts }
    \cup { FieldsLine(Resize([PlainFields(<< "A", ".", "U", "S" >>,
                                          << "2", "0", "2", "3", "0", "1", "0", "3" >>)
                                EXCEPT ![k] = x], n)) :
             x \in Numbers, k \in {5, 9}, n \in FieldCounts }
    \cup { FieldsLine(<< << >> >>), FieldsLine(<< << " " >> >>) }

ParseFileSystems ==
  { [dataDir |-> TRUE, dbFile |-> TRUE,
     roots |-> RootsOf(<< Root(<< File(NameA, << HeaderLine, l >>) >>) >>)] :
      l \in ParseLines }

\* ------------------------------------------------------------- the state
\* ----------------------------------------------------------- Cycle Finder
\* The closes of a series, and the series given to the cycle finder: up to
\* MaxRows rows in date order (ORDER BY date), the date of a row being its
\* position.  From a close of 10, a close of 9 is exactly 10% below and a close
\* of 8 more than 10% below.
Closes == {8, 9, 10, 11}

Series ==
  { [k \in 1..Len(q) |-> [date |-> k, close |-> q[k]]] : q \in SeqsUpTo(Closes, MaxRows) }

\* df['close'].cummax() at row k
RECURSIVE CumMax(_, _)
CumMax(df, k) ==
  IF k = 1 THEN df[1].close
  ELSE IF df[k].close > CumMax(df, k - 1) THEN df[k].close
  ELSE CumMax(df, k - 1)

\* df['drawdown'] at row k, (close - cummax) / cummax * 100, as the fraction
\* num / den with den > 0
Drawdown(df, k) ==
  [num |-> (df[k].close - CumMax(df, k)) * 100, den |-> CumMax(df, k)]

FracLess(x, y) == x.num * y.den < y.num * x.den

\* period_data['drawdown'].min() over the rows a..b
MinDrawdown(df, a, b) ==
  Drawdown(df, CHOOSE k \in a..b :
                 \A j \in a..b : ~FracLess(Drawdown(df, j), Drawdown(df, k)))

\* Changed: a drawdown of exactly 10% counts as well.
TenOrMore(min_dd) == min_dd.num <= -10 * min_dd.den

\* min_dd < -10
MoreThanTen(min_dd) == min_dd.num < -10 * min_dd.den

\* period_data['close'].idxmin(): the first row of a..b with the least close
IdxMin(df, a, b) ==
  CHOOSE k \in a..b :
    /\ \A j \in a..b : df[k].close <= df[j].close
    /\ \A j \in a..(k - 1) : df[j].close > df[k].close

\* Before the call: no frame, current_ath and current_ath_idx are None (0).
NoScan ==
  [df |-> << >>, idx |-> 0, current_ath |-> 0, current_ath_idx |-> 0,
   drawdown_periods |-> << >>, returned |-> FALSE]

VARIABLES
  variant,      \* which of the four scripts runs
  fs,           \* the data tree and the store file, as the run finds them
  pc,           \* where main is
  rootIdx,      \* position of main's loop over EXCHANGES
  exchange,     \* exchange_name of the root being processed
  stack,        \* the active process_directory calls, innermost last
  cur,          \* the file being processed: the lines left (as descriptors), its counters
  store,        \* the SQLite store and the connection
  grand,        \* grand_total_processed, grand_total_errors
  clock,        \* datetime('now')
  faultsLeft,   \* failures the environment may still inject
  run,          \* number of the current run over the same store
  runStart,     \* history: the committed tables when the run started
  visited,      \* history: the data files handed to the File Ingestor
  txFailure,    \* history: a transaction step failed, no rollback tried since
  faulted,      \* history: a failure was injected
  rollbackFailed, \* history: a rollback raised
  symbolLost,   \* history: a symbol INSERT raised, or symbols rows were discarded
  reported,     \* history: the run printed its totals
  summarizedAt, \* history: datetime('now') of this run's freshness update, or 0
  duration,     \* end_time - start_time as the summary computes it, or NoTime
  scan          \* find_all_time_highs_and_drawdowns: df, the loop's position and locals

vars ==
  << variant, fs, pc, rootIdx, exchange, stack, cur, store, grand, clock,
     faultsLeft, run, runStart, visited, txFailure, faulted, rollbackFailed,
     symbolLost, reported, summarizedAt, duration, scan >>

\* The variables of the ingestion scripts.
ingestion ==
  << variant, fs, pc, rootIdx, exchange, stack, cur, store, grand, clock,
     faultsLeft, run, runStart, visited, txFailure, faulted, rollbackFailed,
     symbolLost, reported, summarizedAt, duration >>

\* time.time() differences the summary may find (whole ticks of the clock), and
\* the value of duration before the summary.
Durations == {0, 1}
NoTime == -1

Frame(listing) ==
  [items |-> listing, file_count |-> 0, total_processed |-> 0, total_errors |-> 0]
NoFile == [name |-> << >>, lines |-> << >>, processed |-> 0, errors |-> 0]

Top == stack[Len(stack)]
Rest(q) == SubSeq(q, 2, Len(q))
B2N(b) == IF b THEN 1 ELSE 0

\* The outcomes of n operations that can fail (TRUE: it succeeds), as far as
\* the environment may still inject failures.
Fails(o) == Cardinality({i \in DOMAIN o : ~o[i]})
Outcomes(n) == {o \in [1..n -> BOOLEAN] : Fails(o) <= faultsLeft}
Spend(o, used) ==
  /\ Fails(o) = used
  /\ faultsLeft' = faultsLeft - used
  /\ faulted' = (faulted \/ used > 0)

\* Rows of the symbols table that the connection saw and no longer sees.
SymbolsLost(st1, st2) == ~(st1.work.symbols \subseteq st2.work.symbols)

InitRun ==
  /\ pc = "start"
  /\ rootIdx = 0
  /\ exchange = ""
  /\ stack = << >>
  /\ cur = NoFile
  /\ grand = [processed |-> 0, errors |-> 0]
  /\ visited = << >>
  /\ txFailure = FALSE
  /\ reported = FALSE
  /\ summarizedAt = 0
  /\ duration = NoTime
  /\ scan = NoScan

Init ==
  /\ \/ /\ variant \in Variants
        /\ fs \in ContentFileSystems \cup ShapeFileSystems \cup MissingFileSystems
        /\ faultsLeft = MaxFaults
     \/ /\ variant = "robust"
        /\ fs \in BatchFileSystems
        /\ faultsLeft = 0
     \/ /\ variant = "naive"
        /\ fs \in ParseFileSystems
        /\ faultsLeft = 0
  /\ store = ClosedStore(EmptyDb)
  /\ runStart = EmptyDb
  /\ run = 1
  /\ clock = 1
  /\ faulted = FALSE
  /\ rollbackFailed = FALSE
  /\ symbolLost = FALSE
  /\ InitRun

\* ------------------------------------------------------- Run Coordinator
\* Changed: only the data directory is checked.
PreconditionsDataDirOnly(f) == f.dataDir

\* main's two fatal preconditions: os.path.exists(DATA_DIR), os.path.exists(DB_PATH)
PreconditionsOk(f) == f.dataDir /\ f.dbFile

\* main up to the loop over EXCHANGES: the two checks, then sqlite3.connect.
MainStart ==
  /\ pc = "start"
  /\ IF ~PreconditionsOk(fs)
       THEN /\ pc' = "aborted"
            /\ UNCHANGED << store, rootIdx, faultsLeft, faulted >>
       ELSE \E o \in Outcomes(1) :
              /\ Spend(o, B2N(~o[1]))
              /\ store' = IF o[1] THEN Connect(store) ELSE store
              /\ pc' = IF o[1] THEN "roots" ELSE "noconnect"
              /\ rootIdx' = IF o[1] THEN 1 ELSE rootIdx
  /\ UNCHANGED << variant, fs, exchange, stack, cur, grand, clock, run, runStart,
                  visited, txFailure, rollbackFailed, symbolLost, reported,
                  summarizedAt, duration, scan >>

\* The iterations of the loop whose exchange_path does not exist, up to the
\* next root that exists or the end of EXCHANGES.
RECURSIVE NextExisting(_)
NextExisting(i) ==
  IF i > Len(EXCHANGES) \/ fs.roots[i].exists THEN i ELSE NextExisting(i + 1)

SkipRoot ==
  /\ pc = "roots"
  /\ rootIdx <= Len(EXCHANGES)
  /\ ~fs.roots[rootIdx].exists
  /\ rootIdx' = NextExisting(rootIdx)
  /\ UNCHANGED << variant, fs, pc, exchange, stack, cur, store, grand, clock,
                  faultsLeft, run, runStart, visited, txFailure, faulted,
                  rollbackFailed, symbolLost, reported, summarizedAt, duration, scan >>

\* One iteration whose exchange_path exists: the call of process_directory,
\* up to os.listdir (a failed listing is caught in the call, which then
\* returns its zero totals).
EnterRoot ==
  /\ pc = "roots"
  /\ rootIdx <= Len(EXCHANGES)
  /\ fs.roots[rootIdx].exists
  /\ \E o \in Outcomes(1) :
       /\ Spend(o, B2N(~o[1]))
       /\ stack' = << Frame(IF o[1] THEN fs.roots[rootIdx].items ELSE << >>) >>
  /\ exchange' = EXCHANGES[rootIdx].name
  /\ pc' = "walk"
  /\ UNCHANGED << variant, fs, rootIdx, cur, store, grand, clock, run, runStart,
                  visited, txFailure, rollbackFailed, symbolLost, reported,
                  summarizedAt, duration, scan >>

\* The loop is over.  The naive script prints its totals here, before the
\* freshness update; the single script has no freshness update.
RootsDone ==
  /\ pc = "roots"
  /\ rootIdx > Len(EXCHANGES)
  /\ pc' = IF variant = "single" THEN "final" ELSE "freshness"
  /\ reported' = (reported \/ variant = "naive")
  /\ UNCHANGED << variant, fs, rootIdx, exchange, stack, cur, store, grand, clock,
                  faultsLeft, run, runStart, visited, txFailure, faulted,
                  rollbackFailed, symbolLost, summarizedAt, duration, scan >>

\* ------------------------------------------------------ Directory Walker
\* Changed: every entry that is no directory is taken for a data file.
IsPlainFile(e) == ~e.isdir

\* item.endswith('.txt'), in the branch after os.path.isdir(full_path)
IsDataFile(e) == ~e.isdir /\ EndsWith(e.name, DotTxt)

\* item.replace('.txt', '').replace('.US', '').replace('.us', '')
DeriveSymbol(name) == Remove(Remove(Remove(name, DotTxt), DotUS), Dotus)

\* Changed: os.listdir outside the callee's try block, so that a failed listing
\* ends the caller's loop in the caller's except clause.
CallerAborts(items, listed) == IF listed THEN Rest(items) ELSE << >>

\* What is left of the caller's loop over items when the recursive call has
\* returned: the call catches a failed listing itself (try at line 104, except
\* at line 136) and returns its zero totals.
CallerGoesOn(items, listed) == Rest(items)

\* os.path.isdir(full_path): the recursive call, up to os.listdir.
EnterSubdir ==
  /\ pc = "walk"
  /\ Top.items # << >>
  /\ Head(Top.items).isdir
  /\ \E o \in Outcomes(1) :
       /\ Spend(o, B2N(~o[1]))
       /\ stack' = Append([stack EXCEPT ![Len(stack)].items = CallerGoesOn(@, o[1])],
                          Frame(IF o[1] THEN Head(Top.items).items ELSE << >>))
  /\ UNCHANGED << variant, fs, pc, rootIdx, exchange, cur, store, grand, clock,
                  run, runStart, visited, txFailure, rollbackFailed, symbolLost,
                  reported, summarizedAt, duration, scan >>

\* An entry that is neither a directory nor a .txt file.
SkipOther ==
  /\ pc = "walk"
  /\ Top.items # << >>
  /\ ~Head(Top.items).isdir
  /\ ~IsDataFile(Head(Top.items))
  /\ stack' = [stack EXCEPT ![Len(stack)].items = Rest(@)]
  /\ UNCHANGED << variant, fs, pc, rootIdx, exchange, cur, store, grand, clock,
                  faultsLeft, run, runStart, visited, txFailure, faulted,
                  rollbackFailed, symbolLost, reported, summarizedAt, duration, scan >>

\* The end of a listing: process_directory returns its totals, to the calling
\* process_directory or to main.  The robust main then commits, and tries a
\* rollback when that commit raises.
ReturnDir ==
  /\ pc = "walk"
  /\ Top.items = << >>
  /\ IF Len(stack) > 1
       THEN /\ stack' = [SubSeq(stack, 1, Len(stack) - 1) EXCEPT
                           ![Len(stack) - 1].total_processed = @ + Top.total_processed,
                           ![Len(stack) - 1].total_errors = @ + Top.total_errors]
            /\ UNCHANGED << pc, rootIdx, store, grand, faultsLeft, faulted, txFailure,
                            rollbackFailed, symbolLost >>
       ELSE \E o \in Outcomes(2) :
              LET commits == variant = "robust"
                  failed == commits /\ ConnCommitFailed(store, o[1])
                  st1 == IF commits THEN ConnCommit(store, o[1]) ELSE store
                  st2 == IF failed THEN TryRollback(st1, o[2]) ELSE st1
              IN  /\ Spend(o, B2N(failed) + B2N(failed /\ TryRollbackFailed(st1, o[2])))
                  /\ store' = st2
                  /\ txFailure' = IF failed THEN FALSE ELSE txFailure
                  /\ rollbackFailed' =
                       (rollbackFailed \/ (failed /\ TryRollbackFailed(st1, o[2])))
                  /\ symbolLost' = (symbolLost \/ SymbolsLost(store, st2))
                  /\ grand' = [processed |-> grand.processed + Top.total_processed,
                               errors |-> grand.errors + Top.total_errors]
                  /\ stack' = << >>
                  /\ rootIdx' = rootIdx + 1
                  /\ pc' = "roots"
  /\ UNCHANGED << variant, fs, exchange, cur, clock, run, runStart, visited,
                  reported, summarizedAt, duration, scan >>

\* ---------------------------------------------------------- File Ingestor
FileNo == Len(visited)
PriceEntry == [table |-> "prices", file |-> FileNo]
SymbolEntry == [table |-> "symbols", file |-> FileNo]
FreshnessEntry == [table |-> "freshness", file |-> 0]

\* Uncommitted price writes of the file being processed.
OwnWrites(st) == \E i \in 1..Len(st.journal) : st.journal[i] = PriceEntry

\* The values bound to the statement's parameters: SQLite stores a NaN as NULL,
\* every other float as it is.
Bind(x) == IF x.cls = "nan" THEN [ok |-> TRUE, cls |-> "null"] ELSE x
BoundRow(row) ==
  [row EXCEPT !.open = Bind(@), !.high = Bind(@), !.low = Bind(@),
              !.close = Bind(@), !.volume = Bind(@)]

\* cursor.execute(INSERT OR REPLACE INTO historical_prices ...) that succeeds
UpsertPrice(st, row) ==
  ExecWrite(st, [st.work EXCEPT !.prices = InsertOrReplacePrice(@, BoundRow(row))],
            PriceEntry)

\* cursor.execute(INSERT OR IGNORE INTO symbols ...) that succeeds
RegisterRow(st, row) ==
  ExecWrite(st, [st.work EXCEPT !.symbols = InsertOrIgnoreSymbol(@, row)], SymbolEntry)

\* Changed: no script rolls back in the except clause.
NeverRollsBack == FALSE

\* The except clause of the file function: only the single script rolls back.
RollsBackOnError == variant = "single"

\* The file function up to its loop: open and readlines, then (fast) BEGIN
\* TRANSACTION.  Either can raise into the function's except clause.
OpenFile ==
  /\ pc = "walk"
  /\ Top.items # << >>
  /\ IsDataFile(Head(Top.items))
  /\ LET f == Head(Top.items)
     IN  \E o \in Outcomes(2) :
           LET begins == variant = "fast" /\ o[1]
               beginFails == begins /\ ~BeginOk(store)
               raised == ~o[1] \/ beginFails
               st1 == IF begins /\ BeginOk(store) THEN Begin(store) ELSE store
               rb == raised /\ RollsBackOnError
               st2 == IF rb THEN TryRollback(st1, o[2]) ELSE st1
           IN  /\ Spend(o, B2N(~o[1]) + B2N(rb /\ TryRollbackFailed(st1, o[2])))
               /\ store' = st2
               /\ cur' = [name |-> f.name,
                          lines |-> IF raised THEN << >> ELSE Slice(f.lines, 1, Len(f.lines)),
                          processed |-> 0,
                          errors |-> B2N(raised)]
               /\ pc' = IF raised THEN "symbol" ELSE "lines"
               /\ txFailure' = IF rb THEN FALSE ELSE (txFailure \/ beginFails)
               /\ rollbackFailed' = (rollbackFailed \/ (rb /\ TryRollbackFailed(st1, o[2])))
               /\ symbolLost' = (symbolLost \/ SymbolsLost(store, st2))
               /\ visited' = Append(visited,
                    [name |-> f.name, lines |-> f.lines, exchange |-> exchange,
                     read |-> o[1], symbolInserts |-> 0, registered |-> FALSE])
  /\ UNCHANGED << variant, fs, rootIdx, exchange, stack, grand, clock, run,
                  runStart, reported, summarizedAt, duration, scan >>

\* One iteration of the loop over lines[1:].
ProcessLine ==
  /\ pc = "lines"
  /\ cur.lines # << >>
  /\ LET parsed == parse_csv_line(LineText(Head(cur.lines)))
         isRec == parsed.kind = "rec"
         raised == parsed.kind = "raise"
     IN  \E o \in Outcomes(2) :
           LET st1 == IF isRec
                        THEN IF o[1] THEN UpsertPrice(store, parsed.row)
                                     ELSE FailedWrite(store)
                        ELSE store
               rb == raised /\ RollsBackOnError
               st2 == IF rb THEN TryRollback(st1, o[2]) ELSE st1
           IN  /\ Spend(o, B2N(isRec /\ ~o[1]) + B2N(rb /\ TryRollbackFailed(st1, o[2])))
               /\ store' = st2
               /\ cur' = [cur EXCEPT
                            !.lines = IF raised THEN << >> ELSE Rest(@),
                            !.processed = @ + B2N(isRec /\ o[1]),
                            !.errors = @ + B2N(~(isRec /\ o[1]))]
               /\ pc' = IF raised THEN "symbol" ELSE "lines"
               /\ txFailure' = IF rb THEN FALSE
                               ELSE (txFailure \/ (raised /\ OwnWrites(store)))
               /\ rollbackFailed' = (rollbackFailed \/ (rb /\ TryRollbackFailed(st1, o[2])))
               /\ symbolLost' = (symbolLost \/ SymbolsLost(store, st2))
  /\ UNCHANGED << variant, fs, rootIdx, exchange, stack, grand, clock, run,
                  runStart, visited, reported, summarizedAt, duration, scan >>

\* After the last line: COMMIT (fast), db_conn.commit() (single), nothing
\* (naive, robust); a commit that raises lands in the except clause.
FinishFile ==
  /\ pc = "lines"
  /\ cur.lines = << >>
  /\ \E o \in Outcomes(2) :
       LET commits == variant \in {"fast", "single"}
           failed == commits /\ ConnCommitFailed(store, o[1])
           st1 == IF commits THEN ConnCommit(store, o[1]) ELSE store
           rb == failed /\ RollsBackOnError
           st2 == IF rb THEN TryRollback(st1, o[2]) ELSE st1
       IN  /\ Spend(o, B2N(failed) + B2N(rb /\ TryRollbackFailed(st1, o[2])))
           /\ store' = st2
           /\ cur' = [cur EXCEPT !.errors = @ + B2N(failed)]
           /\ txFailure' = IF rb THEN FALSE ELSE (txFailure \/ failed)
           /\ rollbackFailed' = (rollbackFailed \/ (rb /\ TryRollbackFailed(st1, o[2])))
           /\ symbolLost' = (symbolLost \/ SymbolsLost(store, st2))
  /\ pc' = "symbol"
  /\ UNCHANGED << variant, fs, rootIdx, exchange, stack, grand, clock, run,
                  runStart, visited, reported, summarizedAt, duration, scan >>

\* Back in process_directory: the totals, the symbol's INSERT OR IGNORE, then
\* db_conn.commit() after a successful insert (single) or every batch_size
\* files of this call (robust, with a rollback when the commit raises).
RegisterSymbol ==
  /\ pc = "symbol"
  /\ LET f == Head(Top.items)
         count == IF variant = "naive" THEN 0 ELSE Top.file_count + 1
         symbol == DeriveSymbol(f.name)
         row == [symbol |-> symbol, name |-> symbol, exchange |-> exchange]
     IN  \E o \in Outcomes(3) :
           LET st1 == IF o[1] THEN RegisterRow(store, row) ELSE FailedWrite(store)
               commits == \/ variant = "single" /\ o[1]
                          \/ variant = "robust" /\ count % batch_size = 0
               failed == commits /\ ConnCommitFailed(st1, o[2])
               st2 == IF commits THEN ConnCommit(st1, o[2]) ELSE st1
               rb == failed /\ variant = "robust"
               st3 == IF rb THEN TryRollback(st2, o[3]) ELSE st2
           IN  /\ Spend(o, B2N(~o[1]) + B2N(failed)
                             + B2N(rb /\ TryRollbackFailed(st2, o[3])))
               /\ store' = st3
               /\ txFailure' = IF rb THEN FALSE ELSE (txFailure \/ failed)
               /\ rollbackFailed' = (rollbackFailed \/ (rb /\ TryRollbackFailed(st2, o[3])))
               /\ symbolLost' = (symbolLost \/ ~o[1] \/ SymbolsLost(st1, st3))
               /\ stack' = [stack EXCEPT
                              ![Len(stack)].items = Rest(@),
                              ![Len(stack)].file_count = count,
                              ![Len(stack)].total_processed = @ + cur.processed,
                              ![Len(stack)].total_errors = @ + cur.errors]
               /\ visited' = [visited EXCEPT ![FileNo].symbolInserts = @ + 1,
                                             ![FileNo].registered = o[1]]
  /\ cur' = NoFile
  /\ pc' = "walk"
  /\ UNCHANGED << variant, fs, rootIdx, exchange, grand, clock, run, runStart,
                  reported, summarizedAt, duration, scan >>

\* -------------------------------------------------- Freshness Summarizer
RECURSIVE RefreshAll(_, _, _)
RefreshAll(st, symbols, now) ==
  IF symbols = {} THEN st
  ELSE LET s == CHOOSE x \in symbols : TRUE
           next == ExecWrite(st,
                     [st.work EXCEPT !.freshness = InsertOrReplaceFreshness(@, s, now)],
                     FreshnessEntry)
       IN  RefreshAll(next, symbols \ {s}, now)

\* update_data_freshness: the GROUP BY query, then one INSERT OR REPLACE per
\* symbol; the fast script wraps the inserts in BEGIN TRANSACTION / COMMIT and
\* writes nothing when BEGIN raises.
UpdateFreshness ==
  /\ pc = "freshness"
  /\ LET symbols == {r.symbol : r \in store.work.prices}
         blocked == variant = "fast" /\ ~BeginOk(store)
         st1 == IF variant = "fast" THEN Begin(store) ELSE store
         st2 == RefreshAll(st1, symbols, clock)
     IN  /\ store' = IF blocked THEN store
                     ELSE IF variant = "fast" THEN Commit(st2) ELSE st2
         /\ summarizedAt' = IF blocked THEN 0 ELSE clock
  /\ clock' = clock + 1
  /\ pc' = "final"
  /\ UNCHANGED << variant, fs, rootIdx, exchange, stack, cur, grand, faultsLeft,
                  run, runStart, visited, txFailure, faulted, rollbackFailed,
                  symbolLost, reported, duration, scan >>

\* Whether the summary divides by duration without looking at it: the fast
\* script prints grand_total_processed/duration unconditionally, the robust and
\* single scripts under `if duration > 0`.
RateGuardMissing(v) == v = "fast"

\* db_conn.commit(); db_conn.close(); then the summary.  A commit that raises
\* ends the naive and fast scripts with the exception; robust and single catch
\* it.  What was not committed when the process ends is gone.  The fast,
\* robust and single scripts then take the time and print the totals and the
\* rate; a division by a zero duration ends the script with the exception.
FinalCommit ==
  /\ pc = "final"
  /\ \E o \in Outcomes(1) :
       LET failed == ConnCommitFailed(store, o[1])
           uncaught == failed /\ variant \in {"naive", "fast"}
           timed == variant # "naive" /\ ~uncaught
       IN  \E d \in (IF timed THEN Durations ELSE {NoTime}) :
             /\ Spend(o, B2N(failed))
             /\ store' = ClosedStore(ConnCommit(store, o[1]).durable)
             /\ duration' = d
             /\ pc' = IF uncaught \/ (timed /\ d = 0 /\ RateGuardMissing(variant))
                         THEN "crashed" ELSE "done"
             /\ reported' = (reported \/ ~uncaught)
             /\ symbolLost' = (symbolLost \/ failed)
  /\ UNCHANGED << variant, fs, rootIdx, exchange, stack, cur, grand, clock, run,
                  runStart, visited, txFailure, rollbackFailed, summarizedAt, scan >>

\* The script is started again, over the same files and the same store.
Rerun ==
  /\ pc \in {"done", "crashed"}
  /\ run < MaxRuns
  /\ run' = run + 1
  /\ runStart' = store.durable
  /\ store' = ClosedStore(store.durable)
  /\ pc' = "start"
  /\ rootIdx' = 0
  /\ exchange' = ""
  /\ stack' = << >>
  /\ cur' = NoFile
  /\ grand' = [processed |-> 0, errors |-> 0]
  /\ visited' = << >>
  /\ txFailure' = FALSE
  /\ reported' = FALSE
  /\ summarizedAt' = 0
  /\ duration' = NoTime
  /\ UNCHANGED << variant, fs, clock, faultsLeft, faulted, rollbackFailed,
                  symbolLost, scan >>

Next ==
  \/ MainStart
  \/ SkipRoot
  \/ EnterRoot
  \/ RootsDone
  \/ EnterSubdir
  \/ SkipOther
  \/ ReturnDir
  \/ OpenFile
  \/ ProcessLine
  \/ FinishFile
  \/ RegisterSymbol
  \/ UpdateFreshness
  \/ FinalCommit
  \/ Rerun

Spec == Init /\ [][Next]_vars

\* The scripts over the trees of family 2: every choice of roots without
\* failures, and one root with the failures the environment may inject.
InitLive ==
  /\ variant \in Variants
  /\ \/ /\ fs \in ShapeFileSystems
        /\ faultsLeft = 0
     \/ /\ fs \in { [dataDir |-> TRUE, dbFile |-> TRUE, roots |-> RootsOf(<< Root(t) >>)] :
                      t \in ShapeTrees(1) }
        /\ faultsLeft = MaxFaults
  /\ store = ClosedStore(EmptyDb)
  /\ runStart = EmptyDb
  /\ run = 1
  /\ clock = 1
  /\ faulted = FALSE
  /\ rollbackFailed = FALSE
  /\ symbolLost = FALSE
  /\ InitRun

\* A step of the loop over lines[1:], told by what it does to the position in
\* the file: the lines left get fewer.  (The first disjunct is one such step;
\* with it the step is enabled exactly when ProcessLine is, whatever the text
\* of the line.)
LineStep ==
  /\ pc = "lines"
  /\ cur.lines # << >>
  /\ \/ /\ cur' = [cur EXCEPT !.lines = Rest(@)]
        /\ UNCHANGED << variant, fs, pc, rootIdx, exchange, stack, store, grand, clock,
                        faultsLeft, run, runStart, visited, txFailure, faulted,
                        rollbackFailed, symbolLost, reported, summarizedAt,
                        duration, scan >>
     \/ Len(cur'.lines) < Len(cur.lines)

\* The steps outside the loop over lines.
OtherSteps ==
  \/ MainStart
  \/ SkipRoot
  \/ EnterRoot
  \/ RootsDone
  \/ EnterSubdir
  \/ SkipOther
  \/ ReturnDir
  \/ OpenFile
  \/ FinishFile
  \/ RegisterSymbol
  \/ UpdateFreshness
  \/ FinalCommit
  \/ Rerun

\* The script is one thread of control that runs on until main returns or
\* raises: a step that can be taken is taken.
SpecLive == InitLive /\ [][Next]_vars /\ WF_vars(OtherSteps) /\ WF_vars(LineStep)

\* The same scripts over one exchange root of family 2, with one more failure
\* that the environment may inject.
InitFaulty ==
  /\ variant \in Variants
  /\ fs \in { [dataDir |-> TRUE, dbFile |-> TRUE, roots |-> RootsOf(<< Root(t) >>)] :
                t \in ShapeTrees(1) }
  /\ faultsLeft = MaxFaults + 1
  /\ store = ClosedStore(EmptyDb)
  /\ runStart = EmptyDb
  /\ run = 1
  /\ clock = 1
  /\ faulted = FALSE
  /\ rollbackFailed = FALSE
  /\ symbolLost = FALSE
  /\ InitRun

SpecFaulty == InitFaulty /\ [][Next]_vars

\* The same scripts over one exchange root of family 2 and a store that an
\* earlier program left with a symbol that has a freshness row and no price-bar
\* row.
StaleSymbol == << "Z" >>
StaleDb ==
  [prices |-> {},
   symbols |-> {[symbol |-> StaleSymbol, name |-> StaleSymbol, exchange |-> "NYSE"]},
   freshness |-> {[symbol |-> StaleSymbol, last_updated |-> 0, status |-> "stale",
                   error_count |-> 3]}]

InitStale ==
  /\ variant \in Variants
  /\ fs \in { [dataDir |-> TRUE, dbFile |-> TRUE, roots |-> RootsOf(<< Root(t) >>)] :
                t \in ShapeTrees(1) }
  /\ faultsLeft = MaxFaults
  /\ store = ClosedStore(StaleDb)
  /\ runStart = StaleDb
  /\ run = 1
  /\ clock = 1
  /\ faulted = FALSE
  /\ rollbackFailed = FALSE
  /\ symbolLost = FALSE
  /\ InitRun

SpecStale == InitStale /\ [][Next]_vars

\* ----------------------------------------------- Cycle Finder, the steps
\* One iteration of `for idx, row in df.iterrows()`.
ScanRow ==
  /\ ~scan.returned
  /\ scan.idx >= 1
  /\ scan.idx <= Len(scan.df)
  /\ LET df == scan.df
         idx == scan.idx
         row == df[idx]
         isAth == row.close = CumMax(df, idx)
         from == scan.current_ath_idx
         min_dd == MinDrawdown(df, from, idx)
         low_idx == IdxMin(df, from, idx)
         period == [ath_date |-> df[from].date,
                    ath_price |-> scan.current_ath,
                    low_date |-> df[low_idx].date,
                    low_price |-> df[low_idx].close,
                    drawdown_pct |-> min_dd,
                    recovery_date |-> row.date,
                    recovery_price |-> row.close]
     IN  scan' =
           IF ~isAth THEN [scan EXCEPT !.idx = idx + 1]
           ELSE [scan EXCEPT
                   !.idx = idx + 1,
                   !.current_ath = row.close,
                   !.current_ath_idx = idx,
                   !.drawdown_periods =
                      IF from # 0 /\ MoreThanTen(min_dd) THEN Append(@, period) ELSE @]
  /\ UNCHANGED ingestion

\* return ath_points, drawdown_periods
ScanReturn ==
  /\ ~scan.returned
  /\ scan.idx > Len(scan.df)
  /\ scan' = [scan EXCEPT !.returned = TRUE]
  /\ UNCHANGED ingestion

NextCycles ==
  \/ ScanRow
  \/ ScanReturn

\* The call of find_all_time_highs_and_drawdowns(df) on every series; no
\* ingestion script runs.
InitCycles ==
  /\ scan \in { [NoScan EXCEPT !.df = df, !.idx = 1] : df \in Series }
  /\ variant = "naive"
  /\ fs = [dataDir |-> FALSE, dbFile |-> FALSE, roots |-> RootsOf(<< >>)]
  /\ store = ClosedStore(EmptyDb)
  /\ runStart = EmptyDb
  /\ faultsLeft = 0
  /\ run = 1
  /\ clock = 1
  /\ faulted = FALSE
  /\ rollbackFailed = FALSE
  /\ symbolLost = FALSE
  /\ pc = "start"
  /\ rootIdx = 0
  /\ exchange = ""
  /\ stack = << >>
  /\ cur = NoFile
  /\ grand = [processed |-> 0, errors |-> 0]
  /\ visited = << >>
  /\ txFailure = FALSE
  /\ reported = FALSE
  /\ summarizedAt = 0
  /\ duration = NoTime

SpecCycles == InitCycles /\ [][NextCycles]_vars

\* ------------------------------------------------------------ the claims
PriceWrites(st) == {i \in 1..Len(st.journal) : st.journal[i].table = "prices"}
\* Price writes executed on the connection and not committed, and their files.
UncommittedRecords(st) == Cardinality(PriceWrites(st))
UncommittedFiles(st) == {st.journal[i].file : i \in PriceWrites(st)}

\* The price-bar table after upserting, in order, every line of `lines` that
\* parses to a record, up to a line that raises.
RECURSIVE FileRows(_, _)
FileRows(table, lines) ==
  IF lines = << >> THEN table
  ELSE LET parsed == parse_csv_line(LineText(Head(lines)))
       IN  IF parsed.kind = "raise" THEN table
           ELSE IF parsed.kind = "rec"
             THEN FileRows(InsertOrReplacePrice(table, BoundRow(parsed.row)), Tail(lines))
           ELSE FileRows(table, Tail(lines))

RowsOf(file) == FileRows({}, Rest(file.lines))

\* No line of the file makes the parser raise.
Clean(file) ==
  \A k \in 2..Len(file.lines) : parse_csv_line(LineText(file.lines[k])).kind # "raise"

RECURSIVE ExpectedPrices(_, _)
ExpectedPrices(table, files) ==
  IF files = << >> THEN table
  ELSE ExpectedPrices(FileRows(table, Rest(Head(files).lines)), Tail(files))

KeysOf(rows) == {PriceKey(r) : r \in rows}

\* The rows of visited file i that no later visited file writes again.
LastingRows(i) ==
  {r \in RowsOf(visited[i]) :
     \A j \in (i + 1)..Len(visited) : PriceKey(r) \notin KeysOf(RowsOf(visited[j]))}

UniqueKeys(table) == \A r, q \in table : PriceKey(r) = PriceKey(q) => r = q
UniqueSymbols(table) == \A r, q \in table : r.symbol = q.symbol => r = q

SymbolOf(i) == DeriveSymbol(visited[i].name)
FirstSighting(i) ==
  visited[CHOOSE j \in 1..Len(visited) :
            /\ SymbolOf(j) = SymbolOf(i)
            /\ \A k \in 1..(j - 1) : SymbolOf(k) # SymbolOf(i)]

\* C1: under the per-file policy of the fast script, when file k has been
\* processed (its COMMIT is behind it) the durable price-bar table holds the
\* records of files 1..k and nothing of later files (stated for runs in which
\* nothing raised), and at no point does it
\* hold some but not all of one file's records.
C1_CrashAfterFileK ==
  (variant = "fast" /\ run = 1 /\ ~faulted)
    => /\ (pc = "symbol" /\ \A i \in 1..Len(visited) : Clean(visited[i]))
            => store.durable.prices = ExpectedPrices({}, visited)
       /\ \A i \in 1..Len(visited) :
            LastingRows(i) \cap store.durable.prices \in {{}, LastingRows(i)}

\* C2: replace-on-conflict.  No two price-bar rows share (symbol, date), in the
\* committed table and in the connection's view; an upsert that succeeds leaves
\* exactly its record under its key and every other row as it was; a second
\* run over the same files leaves the committed table as the first run left it;
\* and a completed naive run in which nothing failed leaves, for every key, the
\* last record its files hold for that key.
C2_UpsertStep ==
  (pc = "lines" /\ cur'.processed = cur.processed + 1)
    => LET row == BoundRow(parse_csv_line(LineText(Head(cur.lines))).row)
       IN  /\ row \in store'.work.prices
           /\ \A r \in store.work.prices :
                PriceKey(r) # PriceKey(row) => r \in store'.work.prices
           /\ \A r \in store'.work.prices : r = row \/ r \in store.work.prices

C2_State ==
  /\ UniqueKeys(store.work.prices)
  /\ UniqueKeys(store.durable.prices)
  /\ (run = 2 /\ pc = "done" /\ ~faulted)
       => store.durable.prices = runStart.prices
  /\ (variant = "naive" /\ pc = "done" /\ ~faulted)
       => store.durable.prices = ExpectedPrices(runStart.prices, visited)

C2_ReplaceOnConflict == [] C2_State /\ [][C2_UpsertStep]_vars

\* C2 witness: a second run has completed over files of which a later one
\* rewrites a key of an earlier one with other values.
C2_Witness ==
  /\ run = 2 /\ pc = "done" /\ ~faulted
  /\ variant = "naive"
  /\ \E i \in 1..Len(visited) : \E j \in (i + 1)..Len(visited) :
       \E r \in RowsOf(visited[i]) : \E q \in RowsOf(visited[j]) :
         PriceKey(r) = PriceKey(q) /\ r # q /\ q \in store.durable.prices

\* C3: under the robust script the files with executed, uncommitted record
\* writes never number more than batch_size.
C3_BatchWindow ==
  variant = "robust" => Cardinality(UncommittedFiles(store)) <= batch_size

WrittenSoFar ==
  grand.processed + cur.processed
    + (IF stack = << >> THEN 0
       ELSE LET Sum[i \in 0..Len(stack)] ==
                  IF i = 0 THEN 0 ELSE Sum[i - 1] + stack[i].total_processed
            IN  Sum[Len(stack)])

\* C5 (as claimed): under the naive script every record written is durable at
\* once, so the connection never holds a record the committed table lacks.
C5_AutocommitDurable ==
  variant = "naive" => store.work.prices = store.durable.prices

\* C5 (amended): under the naive script all writes of the run sit in one
\* implicit transaction until main's final commit: before the run is done the
\* committed store is what it was when the run started, and every record
\* written so far is uncommitted.
C5_DurableAtFinalCommit ==
  (variant = "naive" /\ pc # "done")
    => /\ store.durable = runStart
       /\ pc # "crashed" => UncommittedRecords(store) = WrittenSoFar

\* C5 witness: the naive script has processed every root, two records are
\* written and none is durable.
C5_Witness ==
  /\ variant = "naive" /\ pc = "final"
  /\ UncommittedRecords(store) >= 2
  /\ store.durable.prices = {}

\* C6: a file is never started while a failed transaction step (BEGIN, COMMIT,
\* or an exception over uncommitted writes of a file) is still without a
\* rollback attempt; stated for the failures the scripts run into by
\* themselves, with no failure injected by the environment.
C6_RollbackBeforeNextFile ==
  [][(~faulted' /\ pc = "walk" /\ pc' \in {"lines", "symbol"}) => ~txFailure]_vars

\* C7: every visited file gets exactly one INSERT OR IGNORE of its symbol once
\* its records are processed, and when all roots have been processed the symbol
\* of every file whose insert succeeded is in the Symbol table.
C7_SymbolRegistered ==
  /\ \A i \in 1..Len(visited) :
       /\ visited[i].symbolInserts <= 1
       /\ (i < FileNo \/ pc \notin {"lines", "symbol"}) => visited[i].symbolInserts = 1
  /\ pc \in {"freshness", "final"}
       => \A i \in 1..Len(visited) :
            visited[i].registered
              => \E r \in store.work.symbols : r.symbol = SymbolOf(i)

\* C8: after every completed run in which every symbol insert succeeded, the
\* Symbol table has exactly one row for the symbol of each visited file, with
\* the exchange of the first file processed for that symbol, failed commits
\* and rollbacks included.
C8_FirstExchangeWins ==
  (pc = "done" /\ \A i \in 1..Len(visited) : visited[i].registered)
    => \A i \in 1..Len(visited) :
         /\ Cardinality({r \in store.durable.symbols : r.symbol = SymbolOf(i)}) = 1
         /\ \A r \in store.durable.symbols :
              r.symbol = SymbolOf(i) => r.exchange = FirstSighting(i).exchange

\* C9: after a completed run in which nothing failed every symbol with price-bar rows has exactly one
\* freshness row, active, with error_count 0 and the time of this run's
\* summarization.
C9_FreshnessAfterRun ==
  (pc = "done" /\ ~faulted)
    => \A s \in {r.symbol : r \in store.durable.prices} :
         /\ Cardinality({f \in store.durable.freshness : f.symbol = s}) = 1
         /\ \A f \in store.durable.freshness :
              f.symbol = s
                => /\ f.status = "active"
                   /\ f.error_count = 0
                   /\ summarizedAt > 0
                   /\ f.last_updated = summarizedAt

\* C10: with the data root or the store file missing, main ends before it
\* connects, lists a directory, writes or reports totals.
C10_FatalPreconditions ==
  (~fs.dataDir \/ ~fs.dbFile)
    => /\ pc \in {"start", "aborted"}
       /\ store = ClosedStore(runStart)
       /\ rootIdx = 0 /\ stack = << >> /\ visited = << >>
       /\ grand = [processed |-> 0, errors |-> 0]
       /\ ~reported

\* C10 witness: the run has ended because the store file is missing.
C10_Witness == pc = "aborted" /\ fs.dataDir /\ ~fs.dbFile

\* ------------------------------------------------- the claims, C11 to C20
\* The line about to be parsed, when it was given by its fields.
AtFieldsLine ==
  pc = "lines" /\ cur.lines # << >> /\ Head(cur.lines).kind = "fields"
LineFields == Head(cur.lines).fields
LineParsed == parse_csv_line(LineText(Head(cur.lines)))

IsNumber(text) == FloatOf(text).ok
EightDigits(text) == Len(text) = 8 /\ AllDigits(text)

\* The ticker without one ".US" or ".us" at its end.
WithoutSuffix(ticker) ==
  IF EndsWith(ticker, DotUS) \/ EndsWith(ticker, Dotus)
    THEN SubSeq(ticker, 1, Len(ticker) - 3)
    ELSE ticker

\* YYYY-MM-DD
WellFormedDate(date) ==
  /\ Len(date) = 10
  /\ date[5] = "-" /\ date[8] = "-"
  /\ \A i \in {1, 2, 3, 4, 6, 7, 9, 10} : date[i] \in Digits

\* C11: no run ends, before its summary, through an exception that main does
\* not catch (one of the things the claim says of every error other than the
\* two fatal preconditions).
C11_NoUncaughtException == duration = NoTime => pc # "crashed"

\* C12: parse_csv_line raises for no line handed to it.
C12_NeverRaises ==
  (pc = "lines" /\ cur.lines # << >>) => LineParsed.kind # "raise"

\* C13: a line of exactly 10 fields with a ticker, an 8-digit date and five
\* numbers parses to a record with the date as YYYY-MM-DD, the numbers of
\* fields 5 to 9, and the ticker less a ".US" or ".us" at its end only.
C13_ValidLine ==
  (/\ AtFieldsLine
   /\ Len(LineFields) = NumFields
   /\ LineFields[1] \notin {<< >>, HeaderTicker}
   /\ EightDigits(LineFields[3])
   /\ \A k \in 5..9 : IsNumber(LineFields[k]))
    => /\ LineParsed.kind = "rec"
       /\ LineParsed.row.date =
            SubSeq(LineFields[3], 1, 4) \o << "-" >> \o SubSeq(LineFields[3], 5, 6)
              \o << "-" >> \o SubSeq(LineFields[3], 7, 8)
       /\ LineParsed.row.open = FloatOf(LineFields[5])
       /\ LineParsed.row.high = FloatOf(LineFields[6])
       /\ LineParsed.row.low = FloatOf(LineFields[7])
       /\ LineParsed.row.close = FloatOf(LineFields[8])
       /\ LineParsed.row.volume = FloatOf(LineFields[9])
       /\ LineParsed.row.symbol = WithoutSuffix(LineFields[1])

\* C14: a line with fewer than 10 fields, with the header sentinel or nothing as
\* ticker, with an empty date, or with a field among 5 to 9 that is no number,
\* gets the rejection value.
C14_Rejects ==
  (/\ AtFieldsLine
   /\ \/ Len(LineFields) < NumFields
      \/ /\ Len(LineFields) >= NumFields
         /\ \/ LineFields[1] \in {<< >>, HeaderTicker}
            \/ LineFields[3] = << >>
            \/ \E k \in 5..9 : ~IsNumber(LineFields[k]))
    => LineParsed.kind = "none"

\* C15: a line whose date field is not exactly 8 digits is rejected, and every
\* date in the price-bar table is 4 digits, '-', 2 digits, '-', 2 digits.
C15_DateChecked ==
  /\ (AtFieldsLine /\ Len(LineFields) = NumFields /\ ~EightDigits(LineFields[3]))
       => LineParsed.kind = "none"
  /\ \A r \in store.work.prices \cup store.durable.prices : WellFormedDate(r.date)

\* C16: a line that does not parse to a record adds exactly 1 to the file's
\* rejection count, changes no price-bar row, and leaves the later lines of
\* the file to be parsed (stated for steps without an injected failure).
C16_RejectedLine ==
  [][(pc = "lines" /\ cur.lines # << >> /\ LineParsed.kind # "rec" /\ ~faulted')
       => /\ cur'.errors = cur.errors + 1
          /\ store'.work.prices = store.work.prices
          /\ cur'.lines = Rest(cur.lines)]_vars

LowerCaseLetters ==
  { "a", "b", "c", "d", "e", "f", "g", "h", "i", "j", "k", "l", "m",
    "n", "o", "p", "q", "r", "s", "t", "u", "v", "w", "x", "y", "z" }

UpperCased(symbol) == \A i \in 1..Len(symbol) : symbol[i] \notin LowerCaseLetters
Suffixed(symbol) == EndsWith(symbol, DotUS) \/ EndsWith(symbol, Dotus)

\* C17: every symbol in the Symbol table and in the price-bar table is
\* upper-case and has no ".US" / ".us" suffix (stated for runs in which
\* nothing failed).
C17_SymbolNormalized ==
  ~faulted
    => \A r \in store.work.symbols \cup store.work.prices :
         UpperCased(r.symbol) /\ ~Suffixed(r.symbol)

\* C18: every open, high, low, close and volume present in a price-bar row is
\* finite.
C18_FiniteNumbers ==
  \A r \in store.work.prices \cup store.durable.prices :
    \A x \in {r.open, r.high, r.low, r.close, r.volume} : x.cls \in {"finite", "null"}

\* C19: when a data file cannot be opened or decoded, the file counts (0
\* written, 1 rejected), no row is written for it, nothing that earlier files
\* wrote is discarded, and the walk goes on to the file's symbol and the next
\* entry.
C19_ReadFailure ==
  [][(Len(visited') = Len(visited) + 1 /\ ~visited'[Len(visited')].read)
       => /\ cur'.processed = 0 /\ cur'.errors = 1
          /\ store'.work = store.work
          /\ store'.durable = store.durable
          /\ pc' = "symbol"
          /\ stack' = stack]_vars

\* The walks of a listing: the data files in the order they are handed to the
\* File Ingestor, with the number of listings that failed on the way.
RECURSIVE Walks(_)
Walks(items) ==
  IF items = << >> THEN {[files |-> << >>, failed |-> 0]}
  ELSE LET e == Head(items)
           here == IF e.isdir
                     THEN {[files |-> << >>, failed |-> 1]} \cup Walks(e.items)
                   ELSE IF IsDataFile(e) THEN {[files |-> << e >>, failed |-> 0]}
                   ELSE {[files |-> << >>, failed |-> 0]}
       IN  {[files |-> a.files \o b.files, failed |-> a.failed + b.failed] :
              a \in here, b \in Walks(Rest(items))}

\* The roots as one listing of directories; the roots that do not exist are
\* skipped by main.
RootsListing ==
  LET Pick[i \in 0..Len(EXCHANGES)] ==
        IF i = 0 THEN << >>
        ELSE IF fs.roots[i].exists
          THEN Append(Pick[i - 1], Dir(<< >>, fs.roots[i].items))
        ELSE Pick[i - 1]
  IN  Pick[Len(EXCHANGES)]

VisitedFiles == [i \in 1..Len(visited) |-> File(visited[i].name, visited[i].lines)]

\* C20: a failed listing of a subdirectory is caught in that subdirectory's
\* call.  The step leaves the caller with its remaining entries and its
\* tallies, and leaves the callers above it, main's totals and position, and
\* the store as they were; and when main's loop is over, the files handed to
\* the File Ingestor are those of all roots, in order, less the subtrees whose
\* listing failed (no more of them than failures were injected).
C20_Step ==
  (Len(stack') = Len(stack) + 1 /\ Len(stack) >= 1 /\ faultsLeft' < faultsLeft)
    => /\ stack'[Len(stack')] = Frame(<< >>)
       /\ stack'[Len(stack)] = [Top EXCEPT !.items = Rest(@)]
       /\ SubSeq(stack', 1, Len(stack) - 1) = SubSeq(stack, 1, Len(stack) - 1)
       /\ grand' = grand /\ rootIdx' = rootIdx /\ pc' = "walk"
       /\ store' = store /\ cur' = cur

C20_End ==
  (pc \in {"freshness", "final", "done", "crashed"})
    => \E w \in Walks(RootsListing) :
         /\ w.files = VisitedFiles
         /\ w.failed <= (IF faulted THEN MaxFaults - faultsLeft ELSE 0)

C20_ListingFailure == [] C20_End /\ [][C20_Step]_vars

\* C20 witness: the root lists a subdirectory and then a data file; the
\* listing of the subdirectory failed, the data file was processed and counted.
C20_Witness ==
  /\ pc = "final"
  /\ fs.roots[1].exists /\ ~fs.roots[2].exists
  /\ fs.roots[1].items = << SubB(1), FileA(1) >>
  /\ VisitedFiles = << FileA(1) >>
  /\ grand.processed = 2

\* ------------------------------------------------- the claims, C21 to C29
\* The data lines of a file (positions in file.lines) that parse to a record.
RecLines(file) ==
  {k \in 2..Len(file.lines) : parse_csv_line(LineText(file.lines[k])).kind = "rec"}

Without(lines, k) == SubSeq(lines, 1, k - 1) \o SubSeq(lines, k + 1, Len(lines))

\* C21: an upsert that the store rejects costs one rejection and nothing else:
\* the record is skipped, no table changes, the transaction stays open and the
\* loop goes on with the next line; and when the file is done (fast, single)
\* the records of its other lines are committed and no transaction is left
\* open.
C21_Step ==
  (pc = "lines" /\ cur.lines # << >> /\ LineParsed.kind = "rec"
     /\ faultsLeft' < faultsLeft)
    => /\ cur'.errors = cur.errors + 1
       /\ cur'.processed = cur.processed
       /\ cur'.lines = Rest(cur.lines)
       /\ pc' = "lines"
       /\ store'.work = store.work
       /\ store'.durable = store.durable
       /\ store'.journal = store.journal
       /\ store'.inTxn

C21_Committed ==
  (/\ variant \in {"fast", "single"}
   /\ pc = "symbol"
   /\ visited[FileNo].read
   /\ Clean(visited[FileNo])
   /\ ~txFailure
   /\ cur.processed + 1 = Cardinality(RecLines(visited[FileNo]))
   /\ cur.processed + cur.errors = Len(visited[FileNo].lines) - 1)
    => /\ ~store.inTxn
       /\ \E k \in RecLines(visited[FileNo]) :
            FileRows({}, Rest(Without(visited[FileNo].lines, k)))
              \subseteq store.durable.prices

C21_WriteFailure == [] C21_Committed /\ [][C21_Step]_vars

\* C21 witness: a file of two records of which one was rejected by the store
\* and the other is committed.
C21_Witness ==
  /\ variant = "fast"
  /\ pc = "symbol"
  /\ visited[FileNo].read
  /\ ~txFailure
  /\ Cardinality(RecLines(visited[FileNo])) = 2
  /\ cur.processed = 1
  /\ cur.errors = 1
  /\ Cardinality(store.durable.prices) = 1

\* C22: after a completed run in which nothing failed, every symbol with a
\* freshness row or with price-bar rows has a row in the symbols table.
C22_SymbolsCoverData ==
  (pc = "done" /\ ~faulted /\ ~txFailure)
    => \A r \in store.durable.freshness \cup store.durable.prices :
         \E s \in store.durable.symbols : s.symbol = r.symbol

\* A step of the fast script that executes BEGIN TRANSACTION: the file function
\* after a successful read, or the freshness update.
IssuesBegin ==
  /\ variant = "fast"
  /\ \/ Len(visited') = Len(visited) + 1 /\ visited'[Len(visited')].read
     \/ pc = "freshness" /\ pc' = "final"

\* C23: no BEGIN is issued while a transaction opened earlier, explicitly or
\* by a preceding insert, is still uncommitted (stated for steps of runs in
\* which no failure was injected and no line made the parser raise).
C23_NoNestedBegin ==
  [][(IssuesBegin /\ ~faulted' /\ \A i \in 1..Len(visited) : Clean(visited[i]))
       => ~store.inTxn]_vars

Priced(db) == {r.symbol : r \in db.prices}

\* C24: the freshness update changes no row of the price-bar table or of the
\* symbols table, leaves the freshness row of every symbol without price-bar
\* rows as it was, and writes rows only for symbols that have price-bar rows.
C24_Step ==
  (pc = "freshness" /\ pc' = "final")
    => /\ store'.work.prices = store.work.prices
       /\ store'.work.symbols = store.work.symbols
       /\ store'.durable.prices = store.durable.prices
       /\ store'.durable.symbols = store.durable.symbols
       /\ \A r \in store.work.freshness :
            r.symbol \notin Priced(store.work) => r \in store'.work.freshness
       /\ \A r \in store'.work.freshness :
            r \notin store.work.freshness => r.symbol \in Priced(store.work)
       /\ \A r \in store.durable.freshness :
            r.symbol \notin Priced(store.work) => r \in store'.durable.freshness

C24_OnlyPricedSymbols == [][C24_Step]_vars

\* C24 witness: after the update the store still holds the untouched freshness
\* row of the symbol without price-bar rows, next to a row written by this run.
C24_Witness ==
  /\ pc = "final"
  /\ summarizedAt # 0
  /\ Priced(store.work) # {}
  /\ StaleSymbol \notin Priced(store.work)
  /\ \E r \in store.work.freshness : r.symbol = StaleSymbol /\ r.status = "stale"
  /\ \E r \in store.work.freshness : r.symbol # StaleSymbol /\ r.last_updated = summarizedAt

LoopOver == pc \in {"freshness", "final", "done", "crashed"}

\* C25: when main's loop is over and nothing failed, the files handed to the
\* File Ingestor are exactly the data files under the existing roots, each
\* once, in listing order; whatever fails, no entry without the data-file
\* extension is ever handed over; skipping a missing root changes nothing but
\* the position of the loop; and the loop, once started, comes to its end.
C25_End ==
  /\ (LoopOver /\ ~faulted)
       => \E w \in Walks(RootsListing) : w.failed = 0 /\ w.files = VisitedFiles
  /\ \A i \in 1..Len(visited) : EndsWith(visited[i].name, DotTxt)

C25_SkipStep ==
  (pc = "roots" /\ rootIdx <= Len(EXCHANGES) /\ ~fs.roots[rootIdx].exists)
    => /\ pc' = "roots"
       /\ rootIdx' > rootIdx
       /\ grand' = grand /\ visited' = visited /\ store' = store
       /\ faultsLeft' = faultsLeft

C25_Terminates ==
  (pc = "roots" /\ rootIdx = 1) ~> (pc = "roots" /\ rootIdx > Len(EXCHANGES))

C25_Traversal == [] C25_End /\ [][C25_SkipStep]_vars /\ C25_Terminates

\* C25 witness: the first root is missing, the second lists a data file and a
\* subdirectory with an entry that is no data file and a data file; the loop
\* is over, nothing failed, and the two data files were handed over.
C25_Witness ==
  /\ LoopOver
  /\ ~faulted
  /\ ~fs.roots[1].exists
  /\ fs.roots[2].exists
  /\ fs.roots[2].items = << FileA(2), SubB(2) >>
  /\ Len(visited) = 2
  /\ visited[1].name = NameA /\ visited[2].name = NameB

\* C26: when a file that was read successfully has been processed, the pair it
\* returns adds up to the number of its lines after the first (stated for runs
\* in which no failure was injected).
C26_CountsAddUp ==
  (pc = "symbol" /\ visited[FileNo].read /\ ~faulted)
    => cur.processed + cur.errors = Len(Rest(visited[FileNo].lines))

\* The number of lines of the files that parse to a record.
RECURSIVE RecCount(_)
RecCount(files) ==
  IF files = << >> THEN 0
  ELSE Cardinality(RecLines(Head(files))) + RecCount(Tail(files))

\* C27: at the end of a completed run every record counted as written is
\* committed.  Stated for the runs that counted every record of the files they
\* visited, no failure injected: the committed price-bar table is then the one
\* that all those upserts leave.
C27_CountedIsCommitted ==
  (pc = "done" /\ grand.processed = RecCount(visited) /\ ~faulted)
    => store.durable.prices = ExpectedPrices(runStart.prices, visited)

\* C28: a run that measured an elapsed time of zero ends normally.
C28_ZeroElapsed == duration = 0 => pc = "done"

\* The rows of a series at an all-time high, and the pairs of consecutive ones
\* between which the close falls more than 10% below the earlier high.
AthRows(df) == {k \in 1..Len(df) : \A j \in 1..k : df[j].close <= df[k].close}

ConsecutiveHighs(df) ==
  {p \in AthRows(df) \X AthRows(df) :
     p[1] < p[2] /\ \A k \in (p[1] + 1)..(p[2] - 1) : k \notin AthRows(df)}

FallsMoreThanTenPercent(df, p) ==
  \E k \in p[1]..p[2] : 10 * df[k].close < 9 * df[p[1]].close

Cycles(df) == {p \in ConsecutiveHighs(df) : FallsMoreThanTenPercent(df, p)}

MinClose(df, a, b) == CHOOSE c \in {df[k].close : k \in a..b} :
                        \A k \in a..b : c <= df[k].close

\* C29: when the cycle finder has returned, it reports exactly one cycle for
\* each pair of consecutive all-time-high rows between which the close falls
\* strictly more than 10% below the earlier high, and nothing else (so no
\* drawdown that no new high has followed); every reported cycle has
\* ath_date <= low_date <= recovery_date, the least close between the two
\* highs as low_price, and recovery_price >= ath_price.
C29_Cycles ==
  scan.returned =>
    LET df == scan.df
        out == scan.drawdown_periods
    IN  /\ \A p \in Cycles(df) :
             Cardinality({i \in 1..Len(out) :
                            out[i].ath_date = df[p[1]].date
                            /\ out[i].recovery_date = df[p[2]].date}) = 1
        /\ \A i \in 1..Len(out) :
             /\ \E p \in Cycles(df) :
                  /\ out[i].ath_date = df[p[1]].date
                  /\ out[i].recovery_date = df[p[2]].date
                  /\ out[i].ath_price = df[p[1]].close
                  /\ out[i].recovery_price = df[p[2]].close
             /\ out[i].ath_date <= out[i].low_date
             /\ out[i].low_date <= out[i].recovery_date
             /\ out[i].low_price = MinClose(df, out[i].ath_date, out[i].recovery_date)
             /\ df[out[i].low_date].close = out[i].low_price
             /\ out[i].recovery_price >= out[i].ath_price

\* C29 witness: a series with a reported cycle, a fall of exactly 10% that is
\* not reported, and a last fall of more than 10% that no new high has
\* followed.
C29_Witness ==
  /\ scan.returned
  /\ Len(scan.drawdown_periods) = 1
  /\ \E k \in 2..Len(scan.df) :
       /\ CumMax(scan.df, k) = 10 /\ scan.df[k].close = 9
  /\ 10 * scan.df[Len(scan.df)].close < 9 * CumMax(scan.df, Len(scan.df))

====
